---------------------------- MODULE Spec2Model ----------------------------
(***************************************************************************)
(* The turn engine of the studio simulator (src/script.js): the shared     *)
(* simulationState, the agents translatorTurn / inquisitorTurn /           *)
(* producerTurn / marketingTurn, resolveAnswer, advanceWeek, releaseGame   *)
(* and the callers of advanceWeek (submit handler, gameLoop, toggle).      *)
(*                                                                         *)
(* Numbers.  buildProgress and marketHype only ever change by multiples of *)
(* 0.5, so both are held in HALF POINTS (200 = 100%).  designCompleteness  *)
(* and finalScore are exact rationals <<numerator, denominator>>, compared *)
(* with RatEq.  budget and weeklySpend are the source's integers.          *)
(*                                                                         *)
(* Text.  A command string is a record of what the code tests on it: its   *)
(* prefix (startsWith), the question id the regex of resolveAnswer         *)
(* extracts, and the Translator keywords it contains.  A text-generation   *)
(* reply is one of three kinds (see Replies).  A status string of          *)
(* lastAgentActivity is the tag of the template that produced it.          *)
(***************************************************************************)
EXTENDS Integers, Sequences, FiniteSets, TLC

VARIABLES
    isWaitingForAgents,   \* simulationState.isWaitingForAgents
    currentWeek,          \* gameState.currentWeek
    budget,               \* gameState.budget
    designCompleteness,   \* gameState.designCompleteness, a rational <<n, d>>
    buildProgress,        \* gameState.buildProgress, in half points
    bugs,                 \* gameState.bugs
    marketHype,           \* gameState.marketHype, in half points
    weeklySpend,          \* gameState.weeklySpend
    marketingActive,      \* gameState.marketingActive
    gameReleased,         \* gameState.gameReleased
    finalScore,           \* gameState.finalScore, a rational <<n, d>>
    commandQueue,         \* gameState.commandQueue
    lastAgentActivity,    \* gameState.lastAgentActivity
    quantumCore,          \* simulationState.quantumCore
    unansweredQuestions,  \* simulationState.unansweredQuestions
    bugReports,           \* simulationState.bugReports
    isSimRunning,         \* let isSimRunning
    simLoopTimeout,       \* TRUE while the timer set by gameLoop is pending
    loopAwaiting,         \* TRUE while a gameLoop awaits its advanceWeek()
    input,                \* advanceWeek's local `input` of the latest turn
    processed,            \* advanceWeek's local `processed` of the latest turn
    inq,                  \* the inquisitorTurn() task of the current turn
    prod,                 \* the producerTurn() task of the current turn
    mkt,                  \* the marketingTurn() task of the current turn
    submits,              \* number of submitCommand() calls so far
    lastCall,             \* what the latest advanceWeek() call did
    typed                 \* commandInput.value as its words, when not yet parsed

gameVars == <<isWaitingForAgents, currentWeek, budget, designCompleteness,
              buildProgress, bugs, marketHype, weeklySpend, marketingActive,
              gameReleased, finalScore, commandQueue, lastAgentActivity,
              quantumCore, unansweredQuestions, bugReports, input, processed,
              inq, prod, mkt>>

simVars == <<isSimRunning, simLoopTimeout, loopAwaiting>>

vars == <<gameVars, simVars, submits, lastCall, typed>>

---------------------------------------------------------------------------
(* Bounds of the model. *)

\* Turns start only while currentWeek <= MaxWeek (LongWeeks in the long runs).
MaxWeek == 3

LongWeeks == 23

\* In the long runs the user submits, and the Producer's random draw can hit,
\* only in the first EarlyWeeks weeks and in the last LateWeeks weeks.
EarlyWeeks == 1

LateWeeks == 3

\* In the runs where every text generation falls back, the later window of
\* user activity starts in week FeatureWeek, when Marketing is active.
FeatureWeek == 6

\* submitCommand() calls in the runs with differing quantum ids.
AskSubmits == 1

\* Weeks of the runs that crawl to the release: 200 Producer turns of at
\* least half a point each.
CrawlWeeks == 200

\* In those runs the user submits only in the first CrawlInputWeeks weeks.
CrawlInputWeeks == 2

\* A typed text has at most MaxWords words.
MaxWords == 3

\* submitCommand() is called at most MaxSubmits times (LongSubmits in the long
\* runs).
MaxSubmits == 2

LongSubmits == 1

\* Producer's random draw hits only while fewer than MaxBugs bugs are recorded.
MaxBugs == 1

---------------------------------------------------------------------------
(* Arithmetic helpers. *)

Min(a, b) == IF a < b THEN a ELSE b

Max(a, b) == IF a > b THEN a ELSE b

\* Equality of two rationals <<n, d>> with d > 0.
RatEq(a, b) == a[1] * b[2] = b[1] * a[2]

---------------------------------------------------------------------------
(* Commands. *)

\* What `undefined` (shift() of an empty queue) and '' look like to the code.
NoRef == "none"

Cmd(prefix, ref, kws) == [prefix |-> prefix, ref |-> ref, kws |-> kws]

\* gameState.commandQueue's pre-seeded command.
DefaultCommand == Cmd("/declare", NoRef, {"rpg", "stealth", "cyberpunk"})

\* shift() on an empty array.
Undefined == Cmd("undefined", NoRef, {})

\* The suffixes Math.random().toString(36).substr(2, 9) may produce.
IdSuffixes == {"a", "b"}

\* An environment: the values the user, the random source and the text
\* generator may supply, and the caps of a run.
Env(inputs, qids, uqids, bugids, replies, weeks, active, maxSubmits) ==
    [inputs |-> inputs, qids |-> qids, uqids |-> uqids, bugids |-> bugids,
     replies |-> replies, weeks |-> weeks, active |-> active,
     maxSubmits |-> maxSubmits]

\* Values of commandInput.value the user submits.
InputValues ==
    { Cmd("/answer", "a", {}),
      Cmd("/answer", "a", {"ghostwire"}),
      Cmd("text", NoRef, {"stealth"}),
      Cmd("blank", NoRef, {}) }

\* Values submitted in the long runs.
LateInputs == { Cmd("/declare", NoRef, {"protagonist"}), Cmd("/answer", "a", {}) }

\* input && input.trim() !== ''
NonBlank(c) == c.prefix \notin {"undefined", "blank"}

\* What queryAgent resolves to: a string starting with "Fallback:", a
\* generated text of at most 10 characters, or a longer generated text.
Replies == {"Fallback", "Short", "Text"}

---------------------------------------------------------------------------
(* Translator. *)

Keywords == <<"rpg", "stealth", "cyberpunk", "protagonist", "ghostwire",
              "art style", "gameplay loop">>

Template(k) ==
    CASE k = "rpg"           -> [quantumType |-> "Genre", name |-> "Action RPG"]
      [] k = "stealth"       -> [quantumType |-> "MechanicPillar", name |-> "Stealth"]
      [] k = "cyberpunk"     -> [quantumType |-> "Setting", name |-> "Cyberpunk Fantasy"]
      [] k = "protagonist"   -> [quantumType |-> "Character", name |-> "Unit 734"]
      [] k = "ghostwire"     -> [quantumType |-> "Ability", name |-> "Ghostwire"]
      [] k = "art style"     -> [quantumType |-> "ArtStyle", name |-> "Dystopian Baroque"]
      [] k = "gameplay loop" -> [quantumType |-> "GameplayLoop",
                                 name |-> "Explore, Contract, Takedown, Upgrade"]

\* Mutant: the keywords are tested last to first.
MatchesReversed(c) ==
    [i \in 1..Len(SelectSeq(Keywords, LAMBDA k : k \in c.kws)) |->
        SelectSeq(Keywords, LAMBDA k : k \in c.kws)
            [Len(SelectSeq(Keywords, LAMBDA k : k \in c.kws)) + 1 - i]]

\* The keywords of Keywords the command contains, in definition order.
Matches(c) == SelectSeq(Keywords, LAMBDA k : k \in c.kws)

\* newQuanta of translatorTurn(c) in week w, ids[i] being the i-th generateId().
NewQuanta(c, w, ids) ==
    [i \in 1..Len(Matches(c)) |->
        [quantumType       |-> Template(Matches(c)[i]).quantumType,
         name              |-> Template(Matches(c)[i]).name,
         quantumId         |-> ids[i],
         createdAt         |-> w,
         declarationSource |-> c]]

\* translatorTurn's last write to lastAgentActivity.translator.
TranslatorStatus(c) ==
    IF Len(Matches(c)) > 0 THEN "Created new quanta" ELSE "No new quanta"

---------------------------------------------------------------------------
(* Answer resolution. *)

\* Indices of the questions with id `ref`.
WithId(qs, ref) == {i \in 1..Len(qs) : qs[i].id = ref}

\* unansweredQuestions.find(q => q.id === questionId): its index, 0 if none.
FindQuestion(qs, ref) ==
    IF ref = NoRef \/ WithId(qs, ref) = {} THEN 0
    ELSE CHOOSE i \in WithId(qs, ref) : \A j \in WithId(qs, ref) : i <= j

\* Mutant: resolveAnswer toggles the status instead of setting it.
ResolveQuestionsToggle(qs, c) ==
    IF FindQuestion(qs, c.ref) = 0 THEN qs
    ELSE [qs EXCEPT ![FindQuestion(qs, c.ref)].status =
             IF @ = "Open" THEN "Answered" ELSE "Open"]

\* Mutant: resolveAnswer takes the answered question off the ledger.
ResolveQuestionsRemove(qs, c) ==
    IF FindQuestion(qs, c.ref) = 0 THEN qs
    ELSE SubSeq(qs, 1, FindQuestion(qs, c.ref) - 1)
             \o SubSeq(qs, FindQuestion(qs, c.ref) + 1, Len(qs))

\* The question ledger after resolveAnswer(c).
ResolveQuestions(qs, c) ==
    IF FindQuestion(qs, c.ref) = 0 THEN qs
    ELSE [qs EXCEPT ![FindQuestion(qs, c.ref)].status = "Answered"]

\* resolveAnswer's return value.
ResolveAnswer(qs, c) == FindQuestion(qs, c.ref) # 0

\* Indices of the Open questions, in ledger order.
SeqOfSet(S) ==
    [k \in 1..Cardinality(S) |->
        CHOOSE x \in S : Cardinality({y \in S : y < x}) = k - 1]

\* Mutant: every question of the ledger counts as open.
OpenQuestionsAll(qs) == SeqOfSet(1..Len(qs))

OpenQuestions(qs) == SeqOfSet({i \in 1..Len(qs) : qs[i].status = "Open"})

---------------------------------------------------------------------------
(* Scoring and derived metrics. *)

\* releaseGame's finalScore from designCompleteness dc (rational),
\* marketHype h (half points) and the bug count b:
\*   dc*0.4 + (h/2)*0.3 + max(0, 100 - 2b)*0.3
\*   = (8*n + 3*h*d + 6*max(0, 100 - 2b)*d) / (20*d)     with dc = n/d.
Score(dc, h, b) ==
    << 8 * dc[1] + 3 * h * dc[2] + 6 * Max(0, 100 - 2 * b) * dc[2], 20 * dc[2] >>

\* Mutant: every question counts, answered or not.
CompletenessAllQuestions(core, qs) ==
    IF Len(core) + Len(qs) > 0 THEN << Len(core) * 100, Len(core) + Len(qs) >>
    ELSE << 0, 1 >>

\* advanceWeek's recomputation of designCompleteness.
Completeness(core, qs) ==
    LET open  == Len(OpenQuestions(qs))
        total == Len(core) + open
    IN  IF total > 0 THEN << Len(core) * 100, total >>
        ELSE IF Len(core) > 0 THEN << 100, 1 >> ELSE << 0, 1 >>

\* Mutant: open questions do not slow progress down.
ProgressNoSlowdown(open) == 10

\* Mutant: a base rate of 4 points a week.
ProgressFourPoints(open) == Max(1, 8 - open)

\* Mutant: the increment has no floor.
ProgressNoFloor(open) == Max(0, 10 - open)

\* Producer's progressThisWeek in half points: max(0.5, 5 - 0.5*open).
ProgressThisWeek(open) == Max(1, 10 - open)

---------------------------------------------------------------------------
(* The agent tasks of one turn.  pc is "idle" (not launched), "await"     *)
(* (suspended in `await queryAgent(...)`) or "done" (promise resolved).    *)

IdleTask == [pc |-> "idle"]

DoneTask == [pc |-> "done"]

\* quantumCore.filter(q => q.createdAt === `Week ${currentWeek}`), as indices.
RecentQuanta(core, w) == SeqOfSet({i \in 1..Len(core) : core[i].createdAt = w})

\* Mutant: the Inquisitor's loop does not skip the quanta of answers.
NextAskAny(core, recent, from) == IF from <= Len(recent) THEN from ELSE 0

\* Position in `recent`, from `from` on, of the next quantum the Inquisitor's
\* loop asks about (it skips those declared by an /answer command); 0 if none.
NextAsk(core, recent, from) ==
    LET S == {k \in from..Len(recent) :
                 core[recent[k]].declarationSource.prefix # "/answer"}
    IN  IF S = {} THEN 0 ELSE CHOOSE k \in S : \A j \in S : k <= j

\* inquisitorTurn() up to its first await (or to its end).
InquisitorLaunch(core, w) ==
    LET recent == RecentQuanta(core, w)
        k      == NextAsk(core, recent, 1)
    IN  IF recent = <<>> THEN [task |-> DoneTask, status |-> "No new facts"]
        ELSE IF k = 0
             THEN [task |-> DoneTask, status |-> "No new questions"]
             ELSE [task   |-> [pc |-> "await", recent |-> recent, at |-> k,
                               newQuestions |-> <<>>],
                   status |-> "Analyzing"]

\* Mutant: the Inquisitor only tests the reply's length.
AcceptsQuestionByLength(r) == r # "Short"

\* The Inquisitor accepts a reply as a question.
AcceptsQuestion(r) == r = "Text"

\* The Producer records a bug for a reply.
AcceptsBug(r) == r # "Fallback"

\* Math.random() < open * 0.15, `hit` being the outcome when it is open:
\* certain from 7 open questions on, impossible with none.
DrawHits(open, hit) == open > 0 /\ (hit \/ open >= 7)

\* Mutant: Producer works on an empty Quantum Core.
ProducerIdleOnlyReleased(core, released) == released

\* producerTurn's bootstrap guard.
ProducerIdle(core, released) == Len(core) = 0 \/ released

\* marketingTurn's guard.
MarketingIdle(active, released) == ~active \/ released

\* Mutant: Marketing is activated a week early.
MarketingStartsEarly(w) == w > 4

\* The week threshold of advanceWeek.
MarketingStarts(w) == w > 5

Promotable == {"Ability", "Character", "MechanicPillar", "Setting"}

\* recentQuanta.find(q => [...].includes(q.quantumType)) finds something.
HasFeature(core, w) ==
    \E k \in 1..Len(RecentQuanta(core, w)) :
        core[RecentQuanta(core, w)[k]].quantumType \in Promotable

\* Mutant: a full point of hype per quantum.
HypeAfterFullPoints(h, core) == Min(200, h + 2 * Len(core))

\* marketHype after Marketing's update: + quantumCore.length / 2, capped.
HypeAfter(h, core) == Min(200, h + Len(core))

\* weeklySpend after Marketing's update.
SpendAfter(ws) == ws + 2000

\* Mutant: the progress update without Math.min.
ProgressAfterUnclamped(bp, open) == bp + Max(1, 10 - open)

\* Mutant: Producer counts the ledger as it was before the answer resolution.
ProgressAfterStale(bp, open) ==
    Min(200, bp + ProgressThisWeek(Len(OpenQuestions(unansweredQuestions))))

\* buildProgress after Producer's update.
ProgressAfter(bp, open) == Min(200, bp + ProgressThisWeek(open))

\* Mutant: the release test misses the capped value.
ReleaseDueStrict(bp) == bp > 200

\* Producer's release test.
ReleaseDue(bp) == bp >= 200

---------------------------------------------------------------------------
(* advanceWeek. *)

\* Mutant: the guard forgets the waiting flag.
TurnRefusedOnlyReleased == gameReleased

\* advanceWeek's first line: the request returns at once.
TurnRefused == gameReleased \/ isWaitingForAgents

\* Mutant: the join does not wait for the Inquisitor.
JoinReadyEarly ==
    /\ isWaitingForAgents
    /\ prod.pc # "await" /\ mkt.pc # "await"

\* All launched agents have resolved and Promise.all's continuation is next:
\* it runs as a microtask, before any timer or DOM event.
JoinReady ==
    /\ isWaitingForAgents
    /\ inq.pc # "await" /\ prod.pc # "await" /\ mkt.pc # "await"

\* submitCommand() on queue cq with commandInput.value = v.
SubmitCommand(cq, v, running) ==
    IF ~running /\ Len(cq) > 0 THEN [cq EXCEPT ![1] = v]
    ELSE IF v.prefix # "blank" THEN Append(cq, v)
    ELSE cq

\* The synchronous part of a turn that starts: lines 233-250, with each
\* agent run up to its first await.  cq is the queue the call finds, ids[i]
\* the i-th generateId() of the Translator, hit and pick the Producer's two
\* Math.random() draws.
StartTurn(cq, ids, hit, pick) ==
    LET c         == IF cq = <<>> THEN Undefined ELSE Head(cq)
        isDeclare == NonBlank(c) /\ c.prefix = "/declare"
        isAnswer  == NonBlank(c) /\ c.prefix = "/answer"
        parsed    == isDeclare \/ isAnswer
        qs1       == IF isAnswer THEN ResolveQuestions(unansweredQuestions, c)
                     ELSE unansweredQuestions
        core1     == IF parsed THEN quantumCore \o NewQuanta(c, currentWeek, ids)
                     ELSE quantumCore
        proc      == IF isDeclare THEN Len(Matches(c)) > 0
                     ELSE IF isAnswer THEN ResolveAnswer(unansweredQuestions, c)
                     ELSE FALSE
        trStatus  == IF isAnswer /\ proc THEN "Answered question"
                     ELSE IF parsed THEN TranslatorStatus(c)
                     ELSE lastAgentActivity.translator
        \* Inquisitor
        il        == InquisitorLaunch(core1, currentWeek)
        inq1      == IF proc THEN il.task ELSE IdleTask
        inqStatus == IF proc THEN il.status ELSE lastAgentActivity.inquisitor
        \* Producer
        pIdle     == ProducerIdle(core1, gameReleased)
        open      == OpenQuestions(qs1)
        bp1       == IF pIdle THEN buildProgress
                     ELSE ProgressAfter(buildProgress, Len(open))
        draws     == ~pIdle /\ DrawHits(Len(open), hit)
        rel1      == ~pIdle /\ ~draws /\ ReleaseDue(bp1)
        prod1     == IF draws THEN [pc |-> "await", blame |-> qs1[open[pick]].id]
                     ELSE DoneTask
        prStatus  == IF pIdle THEN "Idle"
                     ELSE IF draws THEN lastAgentActivity.producer
                     ELSE IF rel1 THEN "GAME RELEASED" ELSE "progress"
        \* Marketing
        active1   == marketingActive \/ MarketingStarts(currentWeek)
        mIdle     == MarketingIdle(active1, rel1)
        mWaits    == ~mIdle /\ HasFeature(core1, currentWeek)
        mkStatus  == IF mIdle THEN "Planning..." ELSE lastAgentActivity.marketing
    IN  /\ commandQueue' = (IF cq = <<>> THEN cq ELSE Tail(cq))
        /\ input' = c
        /\ processed' = proc
        /\ unansweredQuestions' = qs1
        /\ quantumCore' = core1
        /\ isWaitingForAgents' = TRUE
        /\ inq' = inq1
        /\ prod' = prod1
        /\ mkt' = (IF mWaits THEN [pc |-> "await"] ELSE DoneTask)
        /\ budget' = (IF pIdle THEN budget ELSE budget - weeklySpend)
        /\ buildProgress' = bp1
        /\ gameReleased' = rel1
        /\ finalScore' = (IF rel1 THEN Score(designCompleteness, marketHype, bugs)
                          ELSE finalScore)
        /\ marketingActive' = active1
        /\ marketHype' = (IF mIdle \/ mWaits THEN marketHype
                          ELSE HypeAfter(marketHype, core1))
        /\ weeklySpend' = (IF mIdle \/ mWaits THEN weeklySpend
                           ELSE SpendAfter(weeklySpend))
        /\ lastAgentActivity' = [translator |-> trStatus, inquisitor |-> inqStatus,
                                 producer |-> prStatus, marketing |-> mkStatus]
        /\ UNCHANGED <<currentWeek, designCompleteness, bugs, bugReports>>

\* advanceWeek() called with the queue cq.
AdvanceWeek(cq, ids, hit, pick) ==
    IF TurnRefused
    THEN /\ lastCall' = "refused"
         /\ commandQueue' = cq
         /\ UNCHANGED <<isWaitingForAgents, currentWeek, budget, designCompleteness,
                        buildProgress, bugs, marketHype, weeklySpend,
                        marketingActive, gameReleased, finalScore,
                        lastAgentActivity, quantumCore, unansweredQuestions,
                        bugReports, input, processed, inq, prod, mkt>>
    ELSE /\ lastCall' = "started"
         /\ StartTurn(cq, ids, hit, pick)

---------------------------------------------------------------------------
(* Init: simulationState and the control variables as the script sets them. *)

\* simulationState with currentWeek = w, and t in the command input.
Loaded(w, t) ==
    /\ isWaitingForAgents = FALSE
    /\ currentWeek = w
    /\ budget = 1000000
    /\ designCompleteness = << 0, 1 >>
    /\ buildProgress = 0
    /\ bugs = 0
    /\ marketHype = 0
    /\ weeklySpend = 5000
    /\ marketingActive = FALSE
    /\ gameReleased = FALSE
    /\ finalScore = << 0, 1 >>
    /\ commandQueue = << DefaultCommand >>
    /\ lastAgentActivity = [translator |-> "Awaiting input.", inquisitor |-> "Idle.",
                            producer |-> "Awaiting project start.",
                            marketing |-> "Planning phase."]
    /\ quantumCore = <<>>
    /\ unansweredQuestions = <<>>
    /\ bugReports = <<>>
    /\ isSimRunning = FALSE
    /\ simLoopTimeout = FALSE
    /\ loopAwaiting = FALSE
    /\ input = Undefined
    /\ processed = FALSE
    /\ inq = IdleTask
    /\ prod = IdleTask
    /\ mkt = IdleTask
    /\ submits = 0
    /\ lastCall = "none"
    /\ typed = t

\* The state after construction: week 1, nothing typed.
Init == Loaded(1, <<>>)

---------------------------------------------------------------------------
(* The callers of advanceWeek.  A call that starts a turn is enabled only  *)
(* while currentWeek <= MaxWeek.                                           *)

\* The draws a call of advanceWeek() on queue cq may make: the Translator's
\* ids, and the Producer's two Math.random() values (whether the bug draw
\* hits, and the index of the question to blame).
Front(cq) == IF cq = <<>> THEN Undefined ELSE Head(cq)

OpenAtLaunch(cq) ==
    IF Front(cq).prefix = "/answer"
    THEN OpenQuestions(ResolveQuestions(unansweredQuestions, Front(cq)))
    ELSE OpenQuestions(unansweredQuestions)

IdDraws(E, cq) ==
    IF TurnRefused THEN {<<>>} ELSE [1..Len(Matches(Front(cq))) -> E.qids]

HitDraws(E, cq) ==
    IF /\ ~TurnRefused /\ Len(OpenAtLaunch(cq)) > 0
       /\ bugs < MaxBugs /\ currentWeek \in E.active
    THEN BOOLEAN ELSE {FALSE}

PickDraws(cq, hit) == IF hit THEN 1..Len(OpenAtLaunch(cq)) ELSE {1}

\* A call of advanceWeek() with any draws.
CallAdvanceWeek(E, cq) ==
    \E ids \in IdDraws(E, cq), hit \in HitDraws(E, cq) :
        \E pick \in PickDraws(cq, hit) : AdvanceWeek(cq, ids, hit, pick)

WithinWeeks(E) == TurnRefused \/ currentWeek <= E.weeks

\* The click / Enter handler: submitCommand(); if (!isSimRunning) advanceWeek().
\* The button and the input are disabled while waiting and hidden on release.
Submit(E, v) ==
    /\ ~isWaitingForAgents /\ ~gameReleased
    /\ submits < E.maxSubmits /\ currentWeek \in E.active
    /\ submits' = submits + 1
    /\ typed' = <<>>
    /\ UNCHANGED simVars
    /\ LET cq == SubmitCommand(commandQueue, v, isSimRunning)
       IN  IF isSimRunning
           THEN /\ commandQueue' = cq
                /\ UNCHANGED lastCall
                /\ UNCHANGED <<isWaitingForAgents, currentWeek, budget,
                               designCompleteness, buildProgress, bugs, marketHype,
                               weeklySpend, marketingActive, gameReleased,
                               finalScore, lastAgentActivity, quantumCore,
                               unansweredQuestions, bugReports, input, processed,
                               inq, prod, mkt>>
           ELSE /\ WithinWeeks(E)
                /\ CallAdvanceWeek(E, cq)

\* gameLoop(), called with isSimRunning = running: advanceWeek().then(...).
GameLoop(E, running) ==
    IF ~running
    THEN /\ UNCHANGED <<gameVars, lastCall>>
         /\ simLoopTimeout' = FALSE
         /\ UNCHANGED loopAwaiting
    ELSE /\ WithinWeeks(E)
         /\ CallAdvanceWeek(E, commandQueue)
         /\ simLoopTimeout' = TurnRefused
         /\ loopAwaiting' = (loopAwaiting \/ ~TurnRefused)

\* toggleSimulation(); the button is disabled while waiting.
ToggleSimulation(E) ==
    /\ ~isWaitingForAgents
    /\ isSimRunning' = ~isSimRunning
    /\ GameLoop(E, ~isSimRunning)
    /\ UNCHANGED <<submits, typed>>

\* The timer set by gameLoop fires.
TimerFires(E) ==
    /\ simLoopTimeout
    /\ ~JoinReady
    /\ GameLoop(E, isSimRunning)
    /\ UNCHANGED <<isSimRunning, submits, typed>>

\* Any other call of advanceWeek(), at any time.
AdvanceWeekRequest(E) ==
    /\ ~JoinReady
    /\ WithinWeeks(E)
    /\ CallAdvanceWeek(E, commandQueue)
    /\ UNCHANGED <<simVars, submits, typed>>

---------------------------------------------------------------------------
(* The agents' continuations: a text-generation reply arrives. *)

\* releaseGame(): the score from the state as it is now, with b bugs.
ReleaseGame(b) ==
    /\ gameReleased' = TRUE
    /\ finalScore' = Score(designCompleteness, marketHype, b)

\* inquisitorTurn resumes with reply r; id is generateId('uq') if it is used.
InquisitorReply(r, id) ==
    /\ inq.pc = "await"
    /\ LET q    == quantumCore[inq.recent[inq.at]]
           news == IF AcceptsQuestion(r)
                   THEN Append(inq.newQuestions,
                               [id |-> id, status |-> "Open",
                                sourceQuantumId |-> q.quantumId])
                   ELSE inq.newQuestions
           k    == NextAsk(quantumCore, inq.recent, inq.at + 1)
       IN  IF k # 0
           THEN /\ inq' = [inq EXCEPT !.at = k, !.newQuestions = news]
                /\ UNCHANGED <<unansweredQuestions, lastAgentActivity>>
           ELSE /\ inq' = DoneTask
                /\ unansweredQuestions' = unansweredQuestions \o news
                /\ lastAgentActivity' =
                       [lastAgentActivity EXCEPT !.inquisitor =
                           IF Len(news) > 0 THEN "Generated questions"
                           ELSE "No new questions"]
    /\ UNCHANGED <<isWaitingForAgents, currentWeek, budget, designCompleteness,
                   buildProgress, bugs, marketHype, weeklySpend, marketingActive,
                   gameReleased, finalScore, commandQueue, quantumCore, bugReports,
                   input, processed, prod, mkt, simVars, submits, lastCall, typed>>

\* producerTurn resumes with reply r; id is generateId('bug') if it is used.
ProducerReply(r, id) ==
    /\ prod.pc = "await"
    /\ prod' = DoneTask
    /\ bugs' = (IF AcceptsBug(r) THEN bugs + 1 ELSE bugs)
    /\ bugReports' = (IF AcceptsBug(r)
                      THEN Append(bugReports,
                                  [id |-> id, week |-> currentWeek,
                                   sourceQuestionId |-> prod.blame])
                      ELSE bugReports)
    /\ IF ReleaseDue(buildProgress)
       THEN /\ ReleaseGame(bugs')
            /\ lastAgentActivity' =
                   [lastAgentActivity EXCEPT !.producer = "GAME RELEASED"]
       ELSE /\ UNCHANGED <<gameReleased, finalScore>>
            /\ lastAgentActivity' =
                   [lastAgentActivity EXCEPT !.producer =
                       IF AcceptsBug(r) THEN "A new bug" ELSE "progress"]
    /\ UNCHANGED <<isWaitingForAgents, currentWeek, budget, designCompleteness,
                   buildProgress, marketHype, weeklySpend, marketingActive,
                   commandQueue, quantumCore, unansweredQuestions, input,
                   processed, inq, mkt, simVars, submits, lastCall, typed>>

\* marketingTurn resumes with reply r.
MarketingReply(r) ==
    /\ mkt.pc = "await"
    /\ mkt' = DoneTask
    /\ lastAgentActivity' =
           [lastAgentActivity EXCEPT !.marketing =
               IF r = "Fallback" THEN "Creative block" ELSE "Generated text"]
    /\ marketHype' = HypeAfter(marketHype, quantumCore)
    /\ weeklySpend' = SpendAfter(weeklySpend)
    /\ UNCHANGED <<isWaitingForAgents, currentWeek, budget, designCompleteness,
                   buildProgress, bugs, marketingActive, gameReleased, finalScore,
                   commandQueue, quantumCore, unansweredQuestions, bugReports,
                   input, processed, inq, prod, simVars, submits, lastCall, typed>>

\* advanceWeek after `await Promise.all(agentPromises)`: lines 254-259, and
\* the then-callback of the gameLoop that started the turn.
Join ==
    /\ JoinReady
    /\ isWaitingForAgents' = FALSE
    /\ currentWeek' = currentWeek + 1
    /\ designCompleteness' = Completeness(quantumCore, unansweredQuestions)
    /\ inq' = IdleTask /\ prod' = IdleTask /\ mkt' = IdleTask
    /\ input' = Undefined /\ processed' = FALSE
    /\ loopAwaiting' = FALSE
    /\ simLoopTimeout' = (IF loopAwaiting THEN isSimRunning ELSE simLoopTimeout)
    /\ UNCHANGED <<budget, buildProgress, bugs, marketHype, weeklySpend,
                   marketingActive, gameReleased, finalScore, commandQueue,
                   lastAgentActivity, quantumCore, unansweredQuestions, bugReports,
                   isSimRunning, submits, lastCall, typed>>

---------------------------------------------------------------------------
(* The specification. *)

\* queryAgent resolves for the agent that awaits it.
Reply(agent, r, id) ==
    CASE agent = "inquisitor" -> InquisitorReply(r, id)
      [] agent = "producer"   -> ProducerReply(r, id)
      [] agent = "marketing"  -> MarketingReply(r)

Agents == {"inquisitor", "producer", "marketing"}

\* The ids generateId(prefix) may return for an agent.
AgentIds(E, agent) ==
    CASE agent = "inquisitor" -> E.uqids
      [] agent = "producer"   -> E.bugids
      [] agent = "marketing"  -> {NoRef}

NextIn(E) ==
    \/ \E v \in E.inputs : Submit(E, v)
    \/ ToggleSimulation(E)
    \/ TimerFires(E)
    \/ AdvanceWeekRequest(E)
    \/ \E agent \in Agents, r \in E.replies :
           \E id \in AgentIds(E, agent) : Reply(agent, r, id)
    \/ Join

\* Short runs, every kind of input.
Short == Env(InputValues, {"q"}, IdSuffixes, {"x"}, Replies, MaxWeek, 1..MaxWeek,
             MaxSubmits)

Next == NextIn(Short)

Spec == Init /\ [][Next]_vars

\* Long runs, up to the release, with a user who submits little.
Long == Env(LateInputs, {"q"}, {"a"}, {"x"}, Replies, LongWeeks,
            (1..EarlyWeeks) \cup ((LongWeeks - LateWeeks + 1)..LongWeeks),
            LongSubmits)

NextLong == NextIn(Long)

SpecLong == Init /\ [][NextLong]_vars

\* Long runs in which every text-generation call falls back.
AlwaysFallback == Env(LateInputs, {"q"}, {"a"}, {"x"}, {"Fallback"}, LongWeeks,
                      (1..EarlyWeeks) \cup (FeatureWeek..(FeatureWeek + LateWeeks - 1)),
                      MaxSubmits)

NextFallback == NextIn(AlwaysFallback)

SpecFallback == Init /\ [][NextFallback]_vars

\* Short runs with quantum ids that can differ: the default command, then at
\* most AskSubmits answers.
Asking == Env({Cmd("/answer", "a", {"ghostwire"})}, {"q", "r"}, {"a"}, {"x"},
              Replies, MaxWeek, 1..MaxWeek, AskSubmits)

NextAsking == NextIn(Asking)

SpecAsking == Init /\ [][NextAsking]_vars

\* Runs up to the slowest possible release: the user may add, in the first
\* weeks, a declaration with every keyword, every quantum raises a question
\* and no question is ever answered.  The
\* callers keep requesting turns, every pending text generation returns and
\* the continuation of Promise.all runs.
Crawling == Env({Cmd("/declare", NoRef, {Keywords[k] : k \in 1..Len(Keywords)})},
                {"q"}, {"a"}, {"x"}, {"Text"}, CrawlWeeks,
                1..CrawlInputWeeks, LongSubmits)

NextCrawling == NextIn(Crawling)

SpecCrawling ==
    /\ Init /\ [][NextCrawling]_vars
    /\ WF_vars(AdvanceWeekRequest(Crawling))
    /\ WF_vars(\E agent \in Agents, r \in Crawling.replies :
                  \E id \in AgentIds(Crawling, agent) : Reply(agent, r, id))
    /\ WF_vars(Join)

---------------------------------------------------------------------------
(* The Translator on command text.  A text is a sequence of words; the     *)
(* commands above carry what the Translator tests of it: its keywords.     *)

\* Words a typed text is made of.
Words == {"RPG", "stealth", "stealthy", "Ghostwire", "the"}

Texts == UNION {[1..n -> Words] : n \in 0..MaxWords}

\* input.toLowerCase(), word by word.
ToLowerCase(w) ==
    CASE w = "RPG"       -> "rpg"
      [] w = "Ghostwire" -> "ghostwire"
      [] OTHER           -> w

\* word.includes(k): k is a substring of the word.
WordIncludes(w, k) == w = k \/ (w = "stealthy" /\ k = "stealth")

\* lowerInput.includes(k); no keyword spans two of the words above.
Includes(text, k) ==
    \E i \in 1..Len(text) : WordIncludes(ToLowerCase(text[i]), k)

\* The command '/declare <text>'.
Declare(text) ==
    Cmd("/declare", NoRef,
        {Keywords[k] : k \in {j \in 1..Len(Keywords) : Includes(text, Keywords[j])}})

\* translatorTurn('/declare ' + typed), ids[i] being the i-th generateId().
TranslatorTurn(ids) ==
    /\ input = Undefined
    /\ input' = Declare(typed)
    /\ quantumCore' = quantumCore \o NewQuanta(Declare(typed), currentWeek, ids)
    /\ processed' = (Len(Matches(Declare(typed))) > 0)
    /\ lastAgentActivity' =
           [lastAgentActivity EXCEPT !.translator = TranslatorStatus(Declare(typed))]
    /\ UNCHANGED <<isWaitingForAgents, currentWeek, budget, designCompleteness,
                   buildProgress, bugs, marketHype, weeklySpend, marketingActive,
                   gameReleased, finalScore, commandQueue, unansweredQuestions,
                   bugReports, inq, prod, mkt, simVars, submits, lastCall, typed>>

\* The Translator's inputs are drawn: the week and the text.
InitTranslate == \E w \in 1..MaxWeek, t \in Texts : Loaded(w, t)

NextTranslate ==
    \E ids \in [1..Len(Matches(Declare(typed))) -> {"q"}] : TranslatorTurn(ids)

SpecTranslate == InitTranslate /\ [][NextTranslate]_vars

---------------------------------------------------------------------------
(* Properties. *)

\* A step that starts a turn / that completes one.
TurnStarts == ~isWaitingForAgents /\ isWaitingForAgents'

TurnCompletes == isWaitingForAgents /\ ~isWaitingForAgents'

NoAgentAwaits == inq.pc # "await" /\ prod.pc # "await" /\ mkt.pc # "await"

\* A step of one of advanceWeek's callers in the long runs.
IsRequest ==
    \/ AdvanceWeekRequest(Long)
    \/ TimerFires(Long)
    \/ ToggleSimulation(Long)
    \/ \E v \in LateInputs : Submit(Long, v)

\* C1: a call of advanceWeek made while isWaitingForAgents or gameReleased
\* holds changes no part of the simulation state (no command is popped, no
\* agent is launched, currentWeek stays); and while either holds no step at
\* all pops a command, runs the Translator, sets the waiting flag anew or
\* moves an agent into an await, so one agent phase at most is outstanding.
C1_RefusedRequestChangesNothing ==
    [][ (isWaitingForAgents \/ gameReleased) =>
            /\ (IsRequest => UNCHANGED gameVars)
            /\ commandQueue' = commandQueue
            /\ quantumCore' = quantumCore
            /\ (isWaitingForAgents' => isWaitingForAgents)
            /\ (inq'.pc = "await" => inq.pc = "await")
            /\ (prod'.pc = "await" => prod.pc = "await")
            /\ (mkt'.pc = "await" => mkt.pc = "await") ]_vars

\* A request was refused while the Producer's text generation is pending.
C1_Witness ==
    lastCall = "refused" /\ isWaitingForAgents /\ prod.pc = "await"

\* C2: whenever no turn is in progress, buildProgress = 100 implies
\* gameReleased; gameReleased is set only in a turn whose buildProgress is 100
\* and never reset; finalScore changes only in the step that sets gameReleased.
C2_ReleasedOnceAtFullProgress ==
    [][ /\ (~isWaitingForAgents' /\ buildProgress' >= 200 => gameReleased')
        /\ (gameReleased => gameReleased')
        /\ (~gameReleased /\ gameReleased' => buildProgress' >= 200)
        /\ (finalScore' # finalScore => ~gameReleased /\ gameReleased') ]_vars

\* Released by the Producer's continuation, in the turn that recorded a bug,
\* and that turn has completed.
C2_Witness ==
    /\ gameReleased /\ ~isWaitingForAgents
    /\ Len(bugReports) = 1 /\ bugReports[1].week = currentWeek - 1
    /\ finalScore # << 0, 1 >>

\* C3 (as claimed): once released and the releasing turn has completed,
\* finalScore is the score formula on the designCompleteness, marketHype and
\* bugs the state then holds.
C3_ScoreOfFinalValues ==
    gameReleased /\ ~isWaitingForAgents =>
        RatEq(finalScore,
              << 8 * designCompleteness[1]
                 + 3 * marketHype * designCompleteness[2]
                 + 6 * Max(0, 100 - 2 * bugs) * designCompleteness[2],
                 20 * designCompleteness[2] >>)

\* C4: buildProgress, marketHype and bugs never decrease, and buildProgress
\* and marketHype stay within 0..100 (0..200 half points).
C4_Monotone ==
    [][ /\ buildProgress' >= buildProgress
        /\ marketHype' >= marketHype
        /\ bugs' >= bugs
        /\ buildProgress' \in 0..200
        /\ marketHype' \in 0..200 ]_vars

\* Progress was capped at 100 with hype and a bug on the books.
C4_Witness == buildProgress = 200 /\ marketHype > 0 /\ bugs > 0

\* C5: currentWeek changes only in the step that completes a turn, by exactly
\* one, with no agent of the turn still awaiting; and every step that
\* completes a turn changes it.
C5_WeekPerCompletedTurn ==
    [][ /\ (currentWeek' # currentWeek =>
               /\ currentWeek' = currentWeek + 1
               /\ TurnCompletes
               /\ NoAgentAwaits)
        /\ (TurnCompletes => currentWeek' = currentWeek + 1) ]_vars

\* Two turns have completed without a single quantum: the commands popped
\* were unrecognised or blank, or the queue was empty.
C5_Witness ==
    /\ currentWeek = 3 /\ ~isWaitingForAgents
    /\ quantumCore = <<>> /\ commandQueue = <<>>

\* Number of Open questions in a ledger.
OpenCount(qs) == Cardinality({i \in 1..Len(qs) : qs[i].status = "Open"})

\* The step starts a turn whose command is '/answer <id>' with the id of a
\* question the ledger already holds as Answered.
AnswersAgain ==
    /\ TurnStarts
    /\ input'.prefix = "/answer"
    /\ \E i \in 1..Len(unansweredQuestions) :
          /\ unansweredQuestions[i].id = input'.ref
          /\ \A j \in 1..(i - 1) : unansweredQuestions[j].id # input'.ref
          /\ unansweredQuestions[i].status = "Answered"

\* C6: a question's status only moves Open -> Answered (questions are never
\* removed or renamed, an Answered one stays Answered); a turn that processes
\* '/answer <id>' for an already Answered id leaves the whole question ledger
\* as it was, and Translator still appends the quanta of the new text.
C6_AnswerIsIdempotent ==
    [][ /\ Len(unansweredQuestions') >= Len(unansweredQuestions)
        /\ \A i \in 1..Len(unansweredQuestions) :
              /\ unansweredQuestions'[i].id = unansweredQuestions[i].id
              /\ unansweredQuestions'[i].status \in {"Open", "Answered"}
              /\ (unansweredQuestions[i].status = "Answered"
                    => unansweredQuestions'[i].status = "Answered")
        /\ (AnswersAgain =>
              /\ unansweredQuestions' = unansweredQuestions
              /\ Len(quantumCore') = Len(quantumCore) + Len(Matches(input'))
              /\ \A k \in 1..Len(quantumCore) : quantumCore'[k] = quantumCore[k]
              /\ \A k \in (Len(quantumCore) + 1)..Len(quantumCore') :
                    quantumCore'[k].declarationSource = input') ]_vars

\* Week 3 processes '/answer a ... ghostwire' after week 2 processed the same
\* command and answered question a: both turns created an Ability quantum.
C6_Witness ==
    /\ isWaitingForAgents /\ currentWeek = 3
    /\ input = Cmd("/answer", "a", {"ghostwire"})
    /\ \E i \in 1..Len(unansweredQuestions) :
          unansweredQuestions[i].id = "a" /\ unansweredQuestions[i].status = "Answered"
    /\ \E j, k \in 1..Len(quantumCore) :
          /\ quantumCore[j].createdAt = 2 /\ quantumCore[j].quantumType = "Ability"
          /\ quantumCore[k].createdAt = 3 /\ quantumCore[k].quantumType = "Ability"

\* C7 (as claimed): a turn whose '/answer' command references an id that is
\* absent from the ledger, or whose question is not Open, reports
\* non-resolution: no success result and the translator status is not set to
\* 'Answered question ...'.
C7_ResolvesOnlyOpenQuestions ==
    [][ ( /\ TurnStarts
          /\ input'.prefix = "/answer"
          /\ \A i \in 1..Len(unansweredQuestions) :
                unansweredQuestions[i].id = input'.ref
                    => unansweredQuestions[i].status # "Open" )
        => /\ ~processed'
           /\ lastAgentActivity'.translator # "Answered question" ]_vars

\* The Producer runs in the turn this step starts: the Quantum Core is not
\* empty when it is launched (the game is not released, or no turn starts).
ProducerRuns == TurnStarts /\ quantumCore' # <<>>

\* C8: in a turn in which Producer runs, buildProgress grows by
\* max(0.5, 5 - 0.5*open) (half points: max(1, 10 - open)) capped at 100, open
\* being the number of Open questions it sees; with open = 0 that is exactly
\* 5 (before the cap) and no bug draw is taken: Producer finishes without
\* awaiting a bug text.  bugs and the bug ledger change only in the
\* continuation of a Producer that did take the draw.
C8_ProgressIncrement ==
    [][ /\ (ProducerRuns =>
              /\ buildProgress' =
                    Min(200, buildProgress
                               + Max(1, 10 - OpenCount(unansweredQuestions')))
              /\ (OpenCount(unansweredQuestions') = 0 =>
                    /\ buildProgress' = Min(200, buildProgress + 10)
                    /\ prod'.pc = "done"))
        /\ (TurnStarts /\ ~ProducerRuns => buildProgress' = buildProgress)
        /\ (~TurnStarts => buildProgress' = buildProgress)
        /\ (bugs' # bugs \/ bugReports' # bugReports =>
              /\ prod.pc = "await" /\ prod'.pc = "done"
              /\ OpenCount(unansweredQuestions) > 0) ]_vars

\* A turn in which the last Open question was just answered: Producer ran
\* with questions on the ledger but none Open, and is done.
C8_Witness ==
    /\ isWaitingForAgents /\ ~gameReleased
    /\ input.prefix = "/answer" /\ processed
    /\ unansweredQuestions # <<>> /\ OpenCount(unansweredQuestions) = 0
    /\ quantumCore # <<>> /\ prod.pc = "done"
    /\ lastAgentActivity.producer = "progress"

\* The default command was processed in turn 1 and no question was ever
\* raised.
DefaultRunNoQuestions ==
    /\ unansweredQuestions = <<>>
    /\ Len(quantumCore) >= 3
    /\ \A k \in 1..3 : /\ quantumCore[k].createdAt = 1
                       /\ quantumCore[k].declarationSource = DefaultCommand

\* Turns in which Producer has run: those completed, and the one in progress.
ProducerTurns == IF isWaitingForAgents THEN currentWeek ELSE currentWeek - 1

\* C9: with the default command processed in turn 1 and no Open question at
\* any time, buildProgress is 5*n after n turns for n <= 20 (10*n half
\* points), and the game is released in turn 20 and in no earlier turn.
C9_ReleaseAtTurnTwenty ==
    DefaultRunNoQuestions =>
        /\ (ProducerTurns <= 20 => buildProgress = 10 * ProducerTurns)
        /\ (gameReleased <=> ProducerTurns >= 20)

\* Turn 20 has completed in such a run: the game is released, week 21.
C9_Witness ==
    /\ DefaultRunNoQuestions
    /\ gameReleased /\ ~isWaitingForAgents
    /\ currentWeek = 21 /\ buildProgress = 200

\* With every text generation falling back: no question, no bug, and no
\* generated Marketing text.
FallbackLedgers ==
    /\ unansweredQuestions = <<>>
    /\ bugs = 0 /\ bugReports = <<>>
    /\ lastAgentActivity.marketing # "Generated text"

C11_CompletenessFormula ==
    ~isWaitingForAgents =>
        LET q == Len(quantumCore)
            o == OpenCount(unansweredQuestions)
        IN  /\ (q + o > 0 => RatEq(designCompleteness, << 100 * q, q + o >>))
            /\ (q = 0 => RatEq(designCompleteness, << 0, 1 >>))

\* The spec's example after a completed turn: 3 quanta, 1 Open question, 75;
\* an answered question is on the ledger as well.
C11_Witness ==
    /\ ~isWaitingForAgents /\ currentWeek > 1
    /\ Len(quantumCore) = 3 /\ OpenCount(unansweredQuestions) = 1
    /\ Len(unansweredQuestions) = 2
    /\ designCompleteness = << 300, 4 >>

\* The queue after a FIFO push of the submitted value v (blank text is not
\* queued).
Pushed(v) == IF NonBlank(v) THEN Append(commandQueue, v) ELSE commandQueue

\* The step pops exactly the front of the queue cq, if there is one.
PopsFrontOf(cq) ==
    IF cq = <<>> THEN input' = Undefined /\ commandQueue' = <<>>
    ELSE input' = Head(cq) /\ commandQueue' = Tail(cq)

\* C12 (as claimed): a submitted command is pushed onto the back of
\* commandQueue without altering what is queued, a turn pops exactly the front
\* command, and no other step touches the queue: commands are processed in
\* submission order and none is lost, the pre-seeded default included.
C12_QueueIsFifo ==
    [][ /\ (submits' # submits =>
              \E v \in InputValues :
                 IF TurnStarts THEN PopsFrontOf(Pushed(v))
                 ELSE commandQueue' = Pushed(v))
        /\ (submits' = submits /\ TurnStarts => PopsFrontOf(commandQueue))
        /\ (submits' = submits /\ ~TurnStarts => commandQueue' = commandQueue)
      ]_vars

\* C13 (as claimed): in every reachable state the quantumId values of the
\* Quantum Core are pairwise distinct and the Question ids are pairwise
\* distinct, whatever generateId draws.
C13_IdsAreUnique ==
    /\ \A i, j \in 1..Len(quantumCore) :
          quantumCore[i].quantumId = quantumCore[j].quantumId => i = j
    /\ \A i, j \in 1..Len(unansweredQuestions) :
          unansweredQuestions[i].id = unansweredQuestions[j].id => i = j

\* Positions in Keywords of the keywords the typed text contains.
Hits ==
    {k \in 1..Len(Keywords) :
        \E i \in 1..Len(typed) : WordIncludes(ToLowerCase(typed[i]), Keywords[k])}

\* The quantum types in keyword-definition order.
TypeOrder == <<"Genre", "MechanicPillar", "Setting", "Character", "Ability",
               "ArtStyle", "GameplayLoop">>

\* C14: the Translator appends exactly one quantum per distinct keyword the
\* text contains (however often it occurs), in keyword-definition order, each
\* stamped with the current week and the command; a text containing
\* 'stealth' yields exactly one MechanicPillar 'Stealth'; and the returned
\* boolean is true iff a quantum was appended.
C14_OneQuantumPerKeyword ==
    [][ LET n == Len(quantumCore)
        IN  /\ Len(quantumCore') = n + Cardinality(Hits)
            /\ \A p \in 1..n : quantumCore'[p] = quantumCore[p]
            /\ \A p \in 1..Cardinality(Hits) :
                  \E k \in Hits :
                     /\ Cardinality({j \in Hits : j < k}) = p - 1
                     /\ quantumCore'[n + p].quantumType = TypeOrder[k]
                     /\ quantumCore'[n + p].createdAt = currentWeek
                     /\ quantumCore'[n + p].declarationSource = input'
            /\ (2 \in Hits =>
                  Cardinality({p \in (n + 1)..Len(quantumCore') :
                                  /\ quantumCore'[p].quantumType = "MechanicPillar"
                                  /\ quantumCore'[p].name = "Stealth"}) = 1)
            /\ (processed' <=> Hits # {}) ]_vars

\* 'stealthy stealth RPG' translated in week 3: two quanta, Genre first.
C14_Witness ==
    /\ input # Undefined /\ processed
    /\ typed = <<"stealthy", "stealth", "RPG">>
    /\ Len(quantumCore) = 2
    /\ quantumCore[1].quantumType = "Genre" /\ quantumCore[1].createdAt = 3
    /\ quantumCore[2].name = "Stealth"

\* C15 (as claimed): a turn launches the Inquisitor only if its command
\* processing appended at least one quantum to the Quantum Core, for
\* '/declare' and for '/answer' commands alike.
C15_InquisitorOnlyAfterNewQuanta ==
    [][ TurnStarts /\ inq'.pc # "idle"
            => Len(quantumCore') > Len(quantumCore) ]_vars

\* Quanta the Inquisitor may ask about in the current week: created this
\* week by a command that is not an '/answer'.
Qualifying ==
    {i \in 1..Len(quantumCore) :
        /\ quantumCore[i].createdAt = currentWeek
        /\ quantumCore[i].declarationSource.prefix # "/answer"}

\* Questions added by the step.
AddedQuestions == Len(unansweredQuestions') - Len(unansweredQuestions)

\* C16: questions are only added during a turn, each referencing (by
\* sourceQuantumId) a quantum created in the current week by a command that is
\* not an '/answer'; the questions of a turn follow the creation order of
\* distinct such quanta, so they are at most as many as those; and a turn
\* processing an '/answer' command adds none.
C16_QuestionsOnFreshDeclarations ==
    [][ AddedQuestions > 0 =>
          /\ isWaitingForAgents
          /\ input.prefix # "/answer"
          /\ quantumCore' = quantumCore /\ currentWeek' = currentWeek
          /\ \E f \in [1..AddedQuestions -> Qualifying] :
                /\ \A p, r \in 1..AddedQuestions : p < r => f[p] < f[r]
                /\ \A p \in 1..AddedQuestions :
                      /\ unansweredQuestions'[Len(unansweredQuestions) + p]
                            .sourceQuantumId = quantumCore[f[p]].quantumId
                      /\ unansweredQuestions'[Len(unansweredQuestions) + p]
                            .status = "Open" ]_vars

\* Two questions about differently named quanta of the default command, and
\* a later turn that answered one and created a quantum from the answer.
C16_Witness ==
    /\ ~isWaitingForAgents /\ currentWeek = 3
    /\ Len(unansweredQuestions) = 2
    /\ unansweredQuestions[1].sourceQuantumId # unansweredQuestions[2].sourceQuantumId
    /\ unansweredQuestions[1].status = "Answered"
    /\ \E i \in 1..Len(quantumCore) :
          /\ quantumCore[i].createdAt = 2
          /\ quantumCore[i].declarationSource.prefix = "/answer"

\* C17 (as claimed): the agents of a turn read nothing another agent of the
\* turn writes, so the state at the join does not depend on the order in
\* which their text-generation requests complete.  For the release: when the
\* game is released while Marketing's request is still pending, finalScore
\* is the score the other order (Marketing's reply first) produces.
C17_JoinStateIsOrderIndependent ==
    [][ ~gameReleased /\ gameReleased' /\ mkt.pc = "await" =>
            RatEq(finalScore',
                  Score(designCompleteness,
                        Min(200, marketHype + Len(quantumCore)), bugs')) ]_vars

\* C18: a turn whose Producer finds the Quantum Core empty leaves budget and
\* buildProgress unchanged and takes no bug draw; every other turn deducts
\* weeklySpend (as it is when the turn starts) from budget, once and with no
\* floor; no other step, and so no step after release, changes budget,
\* buildProgress, bugs or the bug ledger, except the continuation of a
\* Producer that took the draw, which changes neither budget nor progress.
C18_ProducerFrame ==
    [][ /\ (TurnStarts /\ quantumCore' = <<>> =>
              /\ budget' = budget /\ buildProgress' = buildProgress
              /\ bugs' = bugs /\ bugReports' = bugReports
              /\ prod'.pc = "done")
        /\ (TurnStarts /\ quantumCore' # <<>> =>
              /\ budget' = budget - weeklySpend
              /\ bugs' = bugs /\ bugReports' = bugReports)
        /\ (~TurnStarts =>
              /\ budget' = budget /\ buildProgress' = buildProgress
              /\ (bugs' # bugs \/ bugReports' # bugReports
                    => prod.pc = "await" /\ ~gameReleased))
        /\ (gameReleased => UNCHANGED <<budget, buildProgress, bugs, bugReports>>)
      ]_vars

\* A turn in progress after twenty turns with an empty Quantum Core:
\* Producer was idle again, the budget is untouched although Marketing has
\* raised weeklySpend meanwhile.
C18_Witness ==
    /\ isWaitingForAgents /\ currentWeek > 20
    /\ quantumCore = <<>> /\ prod.pc = "done"
    /\ lastAgentActivity.producer = "Idle"
    /\ weeklySpend > 5000
    /\ budget = 1000000 /\ buildProgress = 0

\* marketingActive is set exactly from the turn started in week 6 on, and
\* until then marketHype and weeklySpend have their initial values.
ActiveFromWeekSix ==
    /\ (marketingActive <=>
           currentWeek > 6 \/ (currentWeek = 6 /\ isWaitingForAgents))
    /\ (~marketingActive => marketHype = 0 /\ weeklySpend = 5000)

\* C19: marketingActive is false in every turn started with currentWeek <= 5,
\* becomes true in the first turn started with currentWeek > 5 and never
\* reverts; a turn in which Marketing is not active, or finds the game
\* released, only sets Marketing's status string; so marketHype and
\* weeklySpend keep their initial values through week 5.
C19_MarketingActivation ==
    [][ /\ ActiveFromWeekSix /\ ActiveFromWeekSix'
        /\ (marketingActive => marketingActive')
        /\ (TurnStarts => marketingActive' = (marketingActive \/ currentWeek > 5))
        /\ (~TurnStarts => marketingActive' = marketingActive)
        /\ (TurnStarts /\ (~marketingActive' \/ gameReleased') =>
              /\ marketHype' = marketHype /\ weeklySpend' = weeklySpend
              /\ mkt'.pc = "done"
              /\ lastAgentActivity'.marketing = "Planning...") ]_vars

\* The turn started in week 6 is the first with Marketing active: the hype
\* has just moved off 0.
C19_Witness ==
    /\ currentWeek = 6 /\ isWaitingForAgents
    /\ marketingActive /\ marketHype > 0 /\ weeklySpend = 7000

\* Marketing's update of the step: marketHype + quanta/2 capped at 100 (half
\* points: + quanta, capped at 200) and weeklySpend + 2000.
MarketingUpdates ==
    /\ marketHype' = Min(200, marketHype + Len(quantumCore'))
    /\ weeklySpend' = weeklySpend + 2000

\* C20: in a turn in which Marketing runs active, marketHype becomes
\* min(100, marketHype + quanta/2) and weeklySpend grows by 2000, exactly
\* once: at the start of the turn when no promotable quantum was created this
\* week, else when the reply to the promotional request arrives, fallback or
\* not; no other step changes either.
C20_MarketingUpdate ==
    [][ /\ (TurnStarts /\ marketingActive' /\ ~gameReleased' =>
              \/ mkt'.pc = "done" /\ MarketingUpdates
              \/ /\ mkt'.pc = "await"
                 /\ marketHype' = marketHype /\ weeklySpend' = weeklySpend)
        /\ (mkt.pc = "await" /\ mkt'.pc # "await" =>
              /\ mkt'.pc = "done" /\ MarketingUpdates
              /\ lastAgentActivity'.marketing \in {"Creative block", "Generated text"})
        /\ (~TurnStarts /\ ~(mkt.pc = "await" /\ mkt'.pc # "await") =>
              marketHype' = marketHype /\ weeklySpend' = weeklySpend)
        /\ (isWaitingForAgents /\ ~isWaitingForAgents' => mkt.pc = "done") ]_vars

\* The promotional text fell back in a late week: hype and weekly spend were
\* updated all the same, as in each of the active turns before.
C20_Witness ==
    /\ isWaitingForAgents /\ currentWeek > 20 /\ mkt.pc = "done"
    /\ lastAgentActivity.marketing = "Creative block"
    /\ weeklySpend = 5000 + 2000 * (currentWeek - 5)
    /\ marketHype > 3 * (currentWeek - 5)

\* C21: progress never stalls.  While turn requests keep coming, every text
\* generation returns and the join runs, a non-empty Quantum Core leads to
\* the release, however many questions are Open: every turn in which Producer
\* runs adds at least half a point (or reaches 100), so that after n turns
\* buildProgress is at least n/2 and the release comes within 200 turns.
C21_ProgressNeverStalls ==
    /\ (quantumCore # <<>>) ~> gameReleased
    /\ [][ProducerRuns => buildProgress' >= Min(200, buildProgress + 1)]_vars
    /\ [](quantumCore # <<>> => buildProgress >= Min(200, ProducerTurns))

\* Released after crawling at the floor rate: nine or more questions are
\* Open and more than 150 turns have run.
C21_Witness ==
    /\ gameReleased /\ ~isWaitingForAgents
    /\ OpenCount(unansweredQuestions) >= 9
    /\ currentWeek > 150

\* s is an initial segment of t.
IsPrefix(s, t) == Len(s) <= Len(t) /\ SubSeq(t, 1, Len(s)) = s

\* C22: the three ledgers are append-only.  In every step the Quantum Core
\* and the bug ledger keep all their entries, unmodified and in order, and
\* are at most extended at the end; the question ledger keeps its length or
\* grows at the end, and an existing Question either stays as it is or has
\* its status, and nothing else, changed from Open to Answered.
C22_LedgersAppendOnly ==
    [][/\ IsPrefix(quantumCore, quantumCore')
       /\ IsPrefix(bugReports, bugReports')
       /\ Len(unansweredQuestions) <= Len(unansweredQuestions')
       /\ \A i \in 1..Len(unansweredQuestions) :
              \/ unansweredQuestions'[i] = unansweredQuestions[i]
              \/ /\ unansweredQuestions[i].status = "Open"
                 /\ unansweredQuestions'[i] =
                        [unansweredQuestions[i] EXCEPT !.status = "Answered"]]_vars

\* All three ledgers have grown and a Question has been answered: the first
\* Question of the ledger is Answered, a later one is Open, and a bug is on
\* record next to the quanta.
C22_Witness ==
    /\ Len(unansweredQuestions) >= 2
    /\ unansweredQuestions[1].status = "Answered"
    /\ OpenCount(unansweredQuestions) >= 1
    /\ Len(bugReports) >= 1
    /\ Len(quantumCore) >= 2

\* The report that this step appends to the bug ledger.
NewReport == bugReports'[Len(bugReports')]

\* C23: the bug ledger and its counter.  In every reachable state bugs is
\* the length of the bug ledger.  Whenever a report is recorded, it is
\* recorded during a turn, its week is the week of that turn, and its
\* sourceQuestionId is the id of a Question that is in the ledger with
\* status Open at that moment; that Question stays in the ledger afterwards.
C23_BugLedger ==
    /\ [](bugs = Len(bugReports))
    /\ [][Len(bugReports') > Len(bugReports) =>
            /\ Len(bugReports') = Len(bugReports) + 1
            /\ isWaitingForAgents /\ isWaitingForAgents'
            /\ NewReport.week = currentWeek
            /\ currentWeek' = currentWeek
            /\ \E i \in 1..Len(unansweredQuestions) :
                   /\ unansweredQuestions[i].id = NewReport.sourceQuestionId
                   /\ unansweredQuestions[i].status = "Open"]_vars
    /\ [](\A b \in 1..Len(bugReports) :
              /\ bugReports[b].week <= ProducerTurns
              /\ \E i \in 1..Len(unansweredQuestions) :
                     unansweredQuestions[i].id = bugReports[b].sourceQuestionId)

\* A report has just been recorded in a turn after the first, against an
\* Open Question, while an earlier Question of the ledger is Answered.
C23_Witness ==
    /\ isWaitingForAgents /\ currentWeek > 1
    /\ bugs = 1 /\ Len(bugReports) = 1
    /\ bugReports[1].week = currentWeek
    /\ Len(unansweredQuestions) >= 2
    /\ unansweredQuestions[1].status = "Answered"
    /\ \E i \in 2..Len(unansweredQuestions) :
           /\ unansweredQuestions[i].status = "Open"
           /\ unansweredQuestions[i].id = bugReports[1].sourceQuestionId
           /\ unansweredQuestions[i].id # unansweredQuestions[1].id

\* Questions that this step's answer resolution flips from Open to Answered.
AnsweredNow ==
    {i \in 1..Len(unansweredQuestions) :
        /\ unansweredQuestions[i].status = "Open"
        /\ unansweredQuestions'[i].status = "Answered"}

\* The Open questions left once the turn's answer has been resolved.
OpenAfterResolution == OpenCount(unansweredQuestions) - Cardinality(AnsweredNow)

\* C24: Producer counts the Open questions at the start of the turn, after
\* the answer resolution and before any question of the turn exists.  The
\* step that starts a turn adds no question; when Producer runs in it, the
\* progress increment is max(0.5, 5 - 0.5 * n) for n the Open questions of
\* the old ledger less the one just answered, and a bug draw that hits needs
\* n > 0 and blames one of those.  Questions are only added by later steps of
\* the turn, whatever the order of the replies, and such a step changes
\* neither buildProgress nor Producer's draw: a new question is first
\* counted by the start of the following turn.
C24_ProducerCountsAtTurnStart ==
    [][ /\ (TurnStarts => AddedQuestions = 0)
        /\ (ProducerRuns =>
              /\ buildProgress' =
                    Min(200, buildProgress + Max(1, 10 - OpenAfterResolution))
              /\ (prod'.pc = "await" =>
                    /\ OpenAfterResolution > 0
                    /\ \E i \in 1..Len(unansweredQuestions) :
                           /\ unansweredQuestions'[i].status = "Open"
                           /\ unansweredQuestions'[i].id = prod'.blame))
        /\ (AddedQuestions > 0 =>
              /\ isWaitingForAgents /\ isWaitingForAgents'
              /\ AnsweredNow = {}
              /\ buildProgress' = buildProgress
              /\ prod' = prod /\ bugs' = bugs) ]_vars

\* Turn 1 generated three questions and still added the full 5 points;
\* turn 2 answered one of them and added 4 points for the two left Open.
C24_Witness ==
    /\ isWaitingForAgents /\ currentWeek = 2
    /\ Len(unansweredQuestions) = 3
    /\ OpenCount(unansweredQuestions) = 2
    /\ buildProgress = 18

=============================================================================
